---- MODULE Spec2Model ----
(***************************************************************************)
(* Monte Carlo Tree Search engine of agent_mcts/mcts.py (class MCTSNode).  *)
(* The search tree is an arena `tree` of node records; a node's identity   *)
(* is its index in the arena.  The board backend (helpers.bit_board) and   *)
(* the action generator (helpers.sim_board) are external to mcts.py and    *)
(* are modelled by a small placement game on a graph of cells that         *)
(* satisfies their capability contract.                                    *)
(***************************************************************************)
EXTENDS Integers, Sequences, FiniteSets, TLC

\* ------------------------------------------------------------------ bounds
\* arena size and visit count, for the searches and the rollouts
MaxNodes == 6
MaxVisits == 3
\* the same two, for direct method calls and detached rollouts
MaxCallNodes == 3
MaxCallVisits == 2
\* arguments: max_steps / steps, sim_no, times; and the clock's range
MaxSteps == 3
MaxSims == 2
MaxTimes == 2
MaxClock == 2
\* children of the node best_child selects among
MaxSelChildren == 2

\* ------------------------------------------------------- program constants
CLOSE_TO_END == 100
MAX_TURNS == 150

RED == "RED"
BLUE == "BLUE"
NONE == "NONE"
PlayerColor == {RED, BLUE}

\* None for a node reference / an Action
NoNode == 0
NoAction == 0

opponent(c) == IF c = RED THEN BLUE ELSE RED

\* ---------------------------------------------------- board backend (game)
\* A move places one token of the mover on a free cell next to one of the
\* mover's own tokens.
Cells == 1..7
Edges == {{1, 2}, {1, 3}, {1, 4}, {1, 5}, {5, 6}}
Adjacent(a, b) == {a, b} \in Edges

Tokens(board, c) == IF c = RED THEN board.red ELSE board.blue
Occupied(board) == board.red \cup board.blue

RECURSIVE BitState(_)
\* the packed bit-level state of one colour: bit c-1 is set for a token on c
BitState(S) ==
    IF S = {} THEN 0
    ELSE LET c == CHOOSE x \in S : TRUE IN 2 ^ (c - 1) + BitState(S \ {c})

\* generate_all(board, color): the full legal move set
bit_find_actions(board, c) ==
    {m \in Cells \ Occupied(board) : \E o \in Tokens(board, c) : Adjacent(m, o)}

\* update_incremental(old, new, previous_moves, color): previous moves that
\* are still free, plus the moves opened by the tokens `c` placed since `old`
update_actions(old, new, my_actions, c) ==
    LET placed == Tokens(new, c) \ Tokens(old, c)
    IN (my_actions \ Occupied(new))
       \cup {m \in Cells \ Occupied(new) : \E o \in placed : Adjacent(m, o)}

apply_action(board, a) ==
    [red |-> IF board.turn_color = RED THEN board.red \cup {a} ELSE board.red,
     blue |-> IF board.turn_color = BLUE THEN board.blue \cup {a} ELSE board.blue,
     turn_color |-> opponent(board.turn_color),
     turn_count |-> board.turn_count + 1]

turn_limit_reached(board) == board.turn_count >= MAX_TURNS

game_over(board) ==
    turn_limit_reached(board) \/ bit_find_actions(board, board.turn_color) = {}

winner_color(board) ==
    IF ~game_over(board) THEN NONE
    ELSE IF turn_limit_reached(board)
         THEN IF Cardinality(board.red) > Cardinality(board.blue) THEN RED
              ELSE IF Cardinality(board.blue) > Cardinality(board.red) THEN BLUE
              ELSE NONE
         ELSE opponent(board.turn_color)

\* ------------------------------------------------------------ MCTSNode
\* __init__ as it would be if the moves were not copied to untried_actions
MCTSNode_nothing_untried(t, board, parent, parent_action) ==
    LET gp == IF parent # NoNode THEN t[parent].parent ELSE NoNode
        acts == IF parent # NoNode /\ gp # NoNode /\ t[gp].my_actions # {}
                THEN update_actions(t[gp].board, board, t[gp].my_actions,
                                    board.turn_color)
                ELSE bit_find_actions(board, board.turn_color)
    IN [board |-> board,
        parent |-> parent,
        parent_action |-> parent_action,
        my_actions |-> acts,
        untried_actions |-> {},
        action_to_children |-> << >>,
        color |-> board.turn_color,
        num_visits |-> 0,
        results |-> 0,
        danger |-> FALSE,
        winning_color |-> NONE,
        estimated_time |-> 0,
        deleted |-> FALSE]

\* MCTSNode.__init__ evaluated in arena t
MCTSNode(t, board, parent, parent_action) ==
    LET gp == IF parent # NoNode THEN t[parent].parent ELSE NoNode
        acts == IF parent # NoNode /\ gp # NoNode /\ t[gp].my_actions # {}
                THEN update_actions(t[gp].board, board, t[gp].my_actions,
                                    board.turn_color)
                ELSE bit_find_actions(board, board.turn_color)
    IN [board |-> board,
        parent |-> parent,
        parent_action |-> parent_action,
        my_actions |-> acts,
        untried_actions |-> acts,
        action_to_children |-> << >>,
        color |-> board.turn_color,
        num_visits |-> 0,
        results |-> 0,
        danger |-> FALSE,
        winning_color |-> NONE,
        estimated_time |-> 0,
        deleted |-> FALSE]

\* the children map is a dict: a sequence of <<action, node>> in insertion
\* order; assigning to a key that is present keeps the key's position
HasKey(d, a) == \E i \in 1..Len(d) : d[i][1] = a
Lookup(d, a) == d[CHOOSE i \in 1..Len(d) : d[i][1] = a][2]
Assign(d, a, v) ==
    IF HasKey(d, a)
    THEN [i \in 1..Len(d) |-> IF d[i][1] = a THEN <<a, v>> ELSE d[i]]
    ELSE Append(d, <<a, v>>)
Values(d) == {d[i][2] : i \in 1..Len(d)}

is_terminal_node(t, n) == game_over(t[n].board)
is_fully_expanded(t, n) == t[n].untried_actions = {}

\* expand as it would be if the move were not applied to the board's copy
expand_without_move(t, n, action) ==
    LET board_node == t[n].board
        child == Len(t) + 1
        child_node == [MCTSNode(t, board_node, n, action)
                         EXCEPT !.estimated_time = t[n].estimated_time]
        t1 == [t EXCEPT ![n].untried_actions = @ \ {action},
                        ![n].action_to_children = Assign(@, action, child)]
    IN [tree |-> Append(t1, child_node), node |-> child]

\* expand, lines 90-101: the child for `action` is built and registered
expand(t, n, action) ==
    LET board_node == apply_action(t[n].board, action)
        child == Len(t) + 1
        child_node == [MCTSNode(t, board_node, n, action)
                         EXCEPT !.estimated_time = t[n].estimated_time]
        t1 == [t EXCEPT ![n].untried_actions = @ \ {action},
                        ![n].action_to_children = Assign(@, action, child)]
    IN [tree |-> Append(t1, child_node), node |-> child]

\* __init__, line 41: a child of `parent` takes its moves from the list of
\* parent.parent
TakesIncrementalPath(t, parent) ==
    /\ parent # NoNode
    /\ t[parent].parent # NoNode
    /\ t[t[parent].parent].my_actions # {}

\* expand when the call of update_actions at line 43 returns `updated`
expand_given(t, n, action, updated) ==
    LET r == expand(t, n, action)
    IN IF TakesIncrementalPath(t, n)
       THEN [tree |-> [r.tree EXCEPT ![r.node].my_actions = updated,
                                     ![r.node].untried_actions = updated],
             node |-> r.node]
       ELSE r

\* ln(N) in millionths, N = 1..40
LnMicro == <<0, 693147, 1098612, 1386294, 1609438, 1791759, 1945910, 2079442,
             2197225, 2302585, 2397895, 2484907, 2564949, 2639057, 2708050,
             2772589, 2833213, 2890372, 2944439, 2995732, 3044522, 3091042,
             3135494, 3178054, 3218876, 3258097, 3295837, 3332205, 3367296,
             3401197, 3433987, 3465736, 3496508, 3526361, 3555348, 3583519,
             3610918, 3637586, 3663562, 3688879>>

RECURSIVE ISqrtIter(_, _, _)
ISqrtIter(x, lo, hi) ==
    IF lo >= hi THEN lo
    ELSE LET mid == (lo + hi + 1) \div 2
         IN IF mid * mid <= x THEN ISqrtIter(x, mid, hi)
            ELSE ISqrtIter(x, lo, mid - 1)
ISqrt(x) == ISqrtIter(x, 0, 32768)

\* UCB1 score of best_child in ten-thousandths; c10 is c_param in tenths.
\* The order of these scores is the order of the floating-point scores for
\* all visit counts up to 13.
Score(w, n, N, c10) ==
    IF n <= 0 \/ N <= 0 THEN 10000 * w
    ELSE (10000 * w) \div n + ISqrt((c10 * c10 * LnMicro[N]) \div n)

RECURSIVE BestChildIter_last_maximum(_, _, _, _, _, _)
\* the loop of best_child as it would be if a later equal score replaced
\* the best one
BestChildIter_last_maximum(t, n, c10, i, best_score, best) ==
    IF i > Len(t[n].action_to_children) THEN best
    ELSE LET child == t[n].action_to_children[i][2]
             score == Score(t[child].results, t[child].num_visits,
                            t[n].num_visits, c10)
         IN IF score >= best_score
            THEN BestChildIter_last_maximum(t, n, c10, i + 1, score, child)
            ELSE BestChildIter_last_maximum(t, n, c10, i + 1, best_score, best)

RECURSIVE BestChildIter(_, _, _, _, _, _)
\* the loop of best_child, lines 184-199, from the i-th child on
BestChildIter(t, n, c10, i, best_score, best) ==
    IF i > Len(t[n].action_to_children) THEN best
    ELSE LET child == t[n].action_to_children[i][2]
             score == Score(t[child].results, t[child].num_visits,
                            t[n].num_visits, c10)
         IN IF score > best_score
            THEN BestChildIter(t, n, c10, i + 1, score, child)
            ELSE BestChildIter(t, n, c10, i + 1, best_score, best)

\* best_child: the selected child, or NoNode where the code calls exit()
best_child(t, n, c10) == BestChildIter(t, n, c10, 1, -1, NoNode)

\* the actions random.choice can draw in tree_policy / expand()
Picks(t, n) ==
    IF ~is_terminal_node(t, n) /\ ~is_fully_expanded(t, n)
    THEN t[n].untried_actions
    ELSE {NoAction}

\* tree_policy with the drawn action `a`; node = NoNode is a None result
tree_policy(t, n, a) ==
    IF ~is_terminal_node(t, n)
    THEN IF ~is_fully_expanded(t, n)
         THEN expand(t, n, a)
         ELSE IF t[n].my_actions = {}
              THEN [tree |-> t, node |-> NoNode]
              ELSE IF t[n].action_to_children # << >>
                   THEN [tree |-> t, node |-> best_child(t, n, 14)]
                   ELSE [tree |-> t, node |-> n]
    ELSE [tree |-> t, node |-> n]

RECURSIVE backpropagate_root_uncounted(_, _, _)
\* backpropagate as it would be with the visit counted only below the root
backpropagate_root_uncounted(t, n, result) ==
    LET p == t[n].parent
        t1 == [t EXCEPT ![n].num_visits = IF p # NoNode THEN @ + 1 ELSE @,
                        ![n].results = IF result = t[n].color THEN @ + 1 ELSE @]
    IN IF p # NoNode
       THEN backpropagate_root_uncounted([t1 EXCEPT ![p].danger = t1[n].danger],
                                         p, result)
       ELSE t1

RECURSIVE backpropagate_any_color(_, _, _)
\* backpropagate as it would be if a win of either color counted for
\* every node
backpropagate_any_color(t, n, result) ==
    LET t1 == [t EXCEPT ![n].num_visits = @ + 1,
                        ![n].results = IF result # NONE THEN @ + 1 ELSE @]
        p == t[n].parent
    IN IF p # NoNode
       THEN backpropagate_any_color([t1 EXCEPT ![p].danger = t1[n].danger],
                                    p, result)
       ELSE t1

RECURSIVE backpropagate_danger_kept(_, _, _)
\* backpropagate as it would be if a flag once set stayed set
backpropagate_danger_kept(t, n, result) ==
    LET t1 == [t EXCEPT ![n].num_visits = @ + 1,
                        ![n].results = IF result = t[n].color THEN @ + 1 ELSE @]
        p == t[n].parent
    IN IF p # NoNode
       THEN backpropagate_danger_kept(
                [t1 EXCEPT ![p].danger = @ \/ t1[n].danger], p, result)
       ELSE t1

RECURSIVE backpropagate(_, _, _)
\* MCTSNode.backpropagate
backpropagate(t, n, result) ==
    LET t1 == [t EXCEPT ![n].num_visits = @ + 1,
                        ![n].results = IF result = t[n].color THEN @ + 1 ELSE @]
        p == t[n].parent
    IN IF p # NoNode
       THEN backpropagate([t1 EXCEPT ![p].danger = t1[n].danger], p, result)
       ELSE t1


\* round(num / den) as Python rounds: to nearest, halves to the even integer
RoundHalfEven(num, den) ==
    LET q == num \div den
        r == num - q * den
    IN IF 2 * r < den THEN q
       ELSE IF 2 * r > den THEN q + 1
       ELSE IF q % 2 = 0 THEN q ELSE q + 1

greedy_judge(t, n, agent_color) ==
    LET ac == IF agent_color = NONE THEN t[n].color ELSE agent_color
        len == Cardinality(t[n].my_actions)
        b == t[n].board
        red_state == BitState(b.red)
        blue_state == BitState(b.blue)
        base == IF t[n].color = ac THEN len ELSE 0 - len
    IN IF b.turn_count > CLOSE_TO_END
       THEN IF ac = RED
            THEN base + RoundHalfEven(
                     MAX_TURNS * (red_state - blue_state - b.turn_count) + len,
                     MAX_TURNS)
            ELSE base + RoundHalfEven(
                     (blue_state - red_state + len) - MAX_TURNS * b.turn_count,
                     MAX_TURNS)
       ELSE base

\* new_rollout, lines 145-146: `max_steps / 2 == 1` is true division
adjust_max_steps(max_steps) ==
    IF max_steps = 2 * 1 THEN max_steps + 1 ELSE max_steps

\* lines 157-165 as they would be if an equal evaluation counted for self
judge_rollout_ties_to_self(t, self, current_node) ==
    IF is_terminal_node(t, current_node)
    THEN [t EXCEPT ![current_node].danger = TRUE,
                   ![current_node].winning_color =
                       winner_color(t[current_node].board)]
    ELSE IF greedy_judge(t, current_node, t[self].color)
              >= greedy_judge(t, self, t[self].color)
         THEN [t EXCEPT ![current_node].winning_color = t[self].color]
         ELSE [t EXCEPT ![current_node].winning_color = opponent(t[self].color)]

\* new_rollout, lines 157-165: the reached node is marked and returned
judge_rollout(t, self, current_node) ==
    IF is_terminal_node(t, current_node)
    THEN [t EXCEPT ![current_node].danger = TRUE,
                   ![current_node].winning_color =
                       winner_color(t[current_node].board)]
    ELSE IF greedy_judge(t, current_node, t[self].color)
              > greedy_judge(t, self, t[self].color)
         THEN [t EXCEPT ![current_node].winning_color = t[self].color]
         ELSE [t EXCEPT ![current_node].winning_color = opponent(t[self].color)]

\* what `del` leaves of a node: no attribute, hence no reference, remains
Deleted(nd) ==
    [board |-> [red |-> {}, blue |-> {}, turn_color |-> RED, turn_count |-> 0],
     parent |-> NoNode,
     parent_action |-> NoAction,
     my_actions |-> {},
     untried_actions |-> {},
     action_to_children |-> << >>,
     color |-> RED,
     num_visits |-> 0,
     results |-> 0,
     danger |-> FALSE,
     winning_color |-> nd.winning_color,
     estimated_time |-> nd.estimated_time,
     deleted |-> TRUE]

RECURSIVE chop_nodes_except(_, _, _)
RECURSIVE ChopChildren(_, _, _, _)
\* the loops of chop_nodes_except over the children map `kids` from index i
ChopChildren(t, kids, i, node) ==
    IF i > Len(kids) THEN t
    ELSE IF node # NoNode /\ kids[i][2] = node
         THEN ChopChildren(t, kids, i + 1, node)
         ELSE ChopChildren(chop_nodes_except(t, kids[i][2], NoNode),
                           kids, i + 1, node)

chop_nodes_except(t, n, node) ==
    IF node # NoNode
    THEN ChopChildren(t, t[n].action_to_children, 1, node)
    ELSE LET t1 == ChopChildren(t, t[n].action_to_children, 1, NoNode)
         IN [t1 EXCEPT ![n] = Deleted(t1[n])]

\* get_child: the child for `action`, expanded first when it is missing
get_child(t, n, action) ==
    IF HasKey(t[n].action_to_children, action)
    THEN [tree |-> t, node |-> Lookup(t[n].action_to_children, action)]
    ELSE LET r == expand(t, n, action)
         IN [tree |-> r.tree,
             node |-> Lookup(r.tree[n].action_to_children, action)]

\* best_action, lines 245-258, with `sim_count` simulations done
finish_best_action(t, self, sim_count) ==
    IF sim_count = 0
    THEN [kind |-> "ZeroDivisionError", val |-> 0, line |-> 248]
    ELSE LET bc == best_child(t, self, 0)
         IN IF bc = NoNode
            THEN [kind |-> "exit", val |-> 0, line |-> 203]
            ELSE [kind |-> "action", val |-> t[bc].parent_action, line |-> 254]



\* ------------------------------------------------------------- the state
VARIABLES
    tree,     \* the arena of MCTSNode objects
    root,     \* the node the driver searches from
    client,   \* who uses the tree: the driver of a match ("driver"), code
              \* that runs rollouts ("rollouts") or calls the node's
              \* methods one by one ("calls")
    pc,       \* the method the control is in: "idle" between calls
    ba,       \* locals of the running best_action
    ro,       \* locals of the running new_rollout
    rt,       \* locals of the running rollout_turns
    ret       \* what the last call of the driver or of the rollouts
              \* returned or raised

vars == <<tree, root, client, pc, ba, ro, rt, ret>>

Nodes == 1..Len(tree)
Results == PlayerColor \cup {NONE}

\* a position with four moves, each an immediate win of the mover
FourWins == [red |-> {1}, blue |-> {7}, turn_color |-> RED, turn_count |-> 2]

\* positions a tree is rooted at: early game, endgame, and next to the
\* turn limit
InitBoards ==
    {FourWins,
     [red |-> {2}, blue |-> {6}, turn_color |-> RED, turn_count |-> 2],
     [red |-> {6}, blue |-> {2}, turn_color |-> BLUE, turn_count |-> 101],
     [red |-> {2}, blue |-> {6}, turn_color |-> RED, turn_count |-> 148]}

NoBa == [steps |-> 0, sim_no |-> 0, i |-> 0, sim_count |-> 0, elapsed |-> 0]
NoRo == [self |-> NoNode, max_steps |-> 0, push_step |-> 0,
         current_node |-> NoNode, caller |-> "idle"]
NoRt == [self |-> NoNode, times |-> 0, tried_times |-> 0, this_push_step |-> 0,
         push_steps |-> << >>, current_node |-> NoNode]

\* a call's outcome: what it returned or raised, and at which source line
Ret(op, kind, val, line) == [op |-> op, kind |-> kind, val |-> val, line |-> line]

\* a detached root for `board`, its time budget set by the driver
RootNode(board, estimated_time) ==
    [MCTSNode(<< >>, board, NoNode, NoAction)
       EXCEPT !.estimated_time = estimated_time]

InitLocals ==
    /\ root = 1
    /\ pc = "idle"
    /\ ba = NoBa
    /\ ro = NoRo
    /\ rt = NoRt
    /\ ret = Ret("init", "none", 0, 0)

\* a position next to the turn limit where one move of four wins at once
\* and the others do not
Branching == [red |-> {1}, blue |-> {6}, turn_color |-> RED, turn_count |-> 148]

\* the tree a client starts from; only the driver sets a time budget
InitTree ==
    \/ \E board \in (IF client = "rollouts" THEN InitBoards \ {FourWins}
                                             ELSE InitBoards),
          estimated_time \in (IF client = "driver" THEN 0..1 ELSE {0}) :
           tree = <<RootNode(board, estimated_time)>>
    \/ client = "driver" /\ tree = <<RootNode(Branching, 1)>>

\* the client whose incremental move updates may fail starts like the
\* method calls
InitFaulty ==
    /\ client = "faulty"
    /\ \E board \in InitBoards \ {FourWins} : tree = <<RootNode(board, 0)>>
    /\ InitLocals

\* visit counts of the children a selection is made among
SelVisits == {0, 1, 2, 5, 10}
ChildStats ==
    {st \in [num_visits : SelVisits, results : 0..10] :
        st.results <= st.num_visits}

\* the children map holds the moves in the order they were expanded
KeyOrders(k) == {[i \in 1..k |-> i + 1], [i \in 1..k |-> k + 2 - i]}

RECURSIVE Grown(_, _, _, _)
\* the tree after expand(keys[i]) on node 1 and, from each child,
\* stats[i].results backpropagations of the child's color and the other
\* stats[i].num_visits - stats[i].results of no color
Grown(t, keys, stats, i) ==
    IF i > Len(keys) THEN t
    ELSE LET r == expand(t, 1, keys[i])
         IN Grown([r.tree EXCEPT ![r.node].num_visits = stats[i].num_visits,
                                 ![r.node].results = stats[i].results,
                                 ![1].num_visits = @ + stats[i].num_visits],
                  keys, stats, i + 1)

\* the trees of the "selection" client: a searched root and its children
InitSelection ==
    /\ client = "selection"
    /\ \E k \in 0..MaxSelChildren :
           \E keys \in KeyOrders(k), stats \in [1..k -> ChildStats] :
               tree = Grown(<<RootNode(FourWins, 0)>>, keys, stats, 1)
    /\ InitLocals

Init ==
    \/ /\ client \in {"driver", "rollouts", "calls"}
       /\ InitTree
       /\ InitLocals
    \/ InitSelection
    \/ InitFaulty

InitDriver == client = "driver" /\ InitTree /\ InitLocals
InitRollouts == client = "rollouts" /\ InitTree /\ InitLocals
InitCalls == client = "calls" /\ InitTree /\ InitLocals

RECURSIVE Top(_, _)
\* the node without parent above n
Top(t, n) == IF t[n].parent = NoNode THEN n ELSE Top(t, t[n].parent)

RECURSIVE Chain(_, _)
\* n and the nodes above it
Chain(t, n) == IF t[n].parent = NoNode THEN {n} ELSE {n} \cup Chain(t, t[n].parent)

RECURSIVE Usable(_, _)
\* n and every node above it still have their attributes
Usable(t, n) ==
    /\ ~t[n].deleted
    /\ t[n].parent # NoNode => Usable(t, t[n].parent)

\* room for one more node / one more backpropagation pass through n
CanConstruct(t) ==
    Len(t) < (IF client = "driver" THEN MaxNodes ELSE MaxCallNodes)
CanVisit(t, n) ==
    t[Top(t, n)].num_visits < (IF client = "driver" THEN MaxVisits ELSE MaxCallVisits)
CanStep(t, n, a) == a # NoAction => CanConstruct(t)

\* ------------------------------------------------- direct method calls
\* n.expand(action), action None or a move of n
ExpandCall(n, action) ==
    /\ client = "calls"
    /\ pc = "idle"
    /\ Usable(tree, n)
    /\ IF action = NoAction /\ tree[n].untried_actions = {}
       THEN UNCHANGED tree
       ELSE /\ CanConstruct(tree)
            /\ \E a \in (IF action = NoAction THEN tree[n].untried_actions
                                              ELSE {action}) :
                   tree' = expand(tree, n, a).tree
    /\ UNCHANGED <<root, client, pc, ba, ro, rt, ret>>

\* n.get_child(action)
GetChildCall(n, action) ==
    /\ client = "calls"
    /\ pc = "idle"
    /\ Usable(tree, n)
    /\ HasKey(tree[n].action_to_children, action) \/ CanConstruct(tree)
    /\ tree' = get_child(tree, n, action).tree
    /\ UNCHANGED <<root, client, pc, ba, ro, rt, ret>>

\* n.tree_policy()
TreePolicyCall(n) ==
    /\ client = "calls"
    /\ pc = "idle"
    /\ Usable(tree, n)
    /\ \E a \in Picks(tree, n) :
           /\ CanStep(tree, n, a)
           /\ tree' = tree_policy(tree, n, a).tree
    /\ UNCHANGED <<root, client, pc, ba, ro, rt, ret>>

\* n.backpropagate(result)
BackpropagateCall(n, result) ==
    /\ client = "calls"
    /\ pc = "idle"
    /\ Usable(tree, n)
    /\ CanVisit(tree, n)
    /\ tree' = backpropagate(tree, n, result)
    /\ UNCHANGED <<root, client, pc, ba, ro, rt, ret>>

\* --------------------------------------------------------- new_rollout
\* line 238 as it would be if any finished game counted as a win
is_immediate_win_any_winner(t, self, v) ==
    is_terminal_node(t, v)

\* best_action, line 238: the selected node is an immediate win for self
is_immediate_win(t, self, v) ==
    is_terminal_node(t, v) /\ winner_color(t[v].board) = t[self].color

\* best_action, lines 242-244, for the node new_rollout returned
after_rollout(t, end_node) ==
    IF end_node # NoNode
    THEN backpropagate(t, end_node, t[end_node].winning_color)
    ELSE t

\* control leaves new_rollout with `end_node` (NoNode for None)
LeaveRollout(t, end_node, line) ==
    IF ro.caller = "best_action"
    THEN /\ tree' = after_rollout(t, end_node)
         /\ ba' = [ba EXCEPT !.i = @ + 1, !.sim_count = @ + 1]
         /\ pc' = "best_action"
         /\ ret' = Ret("new_rollout", "pending", end_node, line)
    ELSE /\ tree' = t
         /\ ba' = ba
         /\ pc' = "idle"
         /\ ret' = Ret("new_rollout", IF end_node = NoNode THEN "none" ELSE "node",
                       end_node, line)

\* n.new_rollout(max_steps) is entered
NewRolloutCall(n, max_steps) ==
    /\ client = "rollouts"
    /\ pc = "idle"
    /\ Usable(tree, n)
    /\ pc' = "new_rollout"
    /\ ro' = [self |-> n, max_steps |-> adjust_max_steps(max_steps),
              push_step |-> 0, current_node |-> n, caller |-> "idle"]
    /\ ret' = Ret("new_rollout", "pending", 0, 139)
    /\ UNCHANGED <<tree, root, client, ba, rt>>

\* one turn of the while loop of new_rollout, lines 149-156
NewRolloutStep ==
    /\ pc = "new_rollout"
    /\ ~is_terminal_node(tree, ro.current_node)
    /\ ro.push_step < ro.max_steps
    /\ \E a \in Picks(tree, ro.current_node) :
           /\ CanStep(tree, ro.current_node, a)
           /\ LET r == tree_policy(tree, ro.current_node, a)
              IN IF r.node = NoNode
                 THEN /\ LeaveRollout(r.tree, NoNode, 156)
                      /\ ro' = NoRo
                 ELSE /\ tree' = r.tree
                      /\ ro' = [ro EXCEPT !.push_step = @ + 1,
                                          !.current_node = r.node]
                      /\ UNCHANGED <<pc, ba, ret>>
    /\ UNCHANGED <<root, client, rt>>

\* the loop of new_rollout is over, lines 157-165
NewRolloutReturn ==
    /\ pc = "new_rollout"
    /\ is_terminal_node(tree, ro.current_node) \/ ro.push_step >= ro.max_steps
    /\ LeaveRollout(judge_rollout(tree, ro.self, ro.current_node),
                    ro.current_node,
                    IF is_terminal_node(tree, ro.current_node) THEN 160 ELSE 165)
    /\ ro' = NoRo
    /\ UNCHANGED <<root, client, rt>>

\* --------------------------------------------------------- best_action
\* root.best_action(steps, sim_no) is entered
BestActionCall(steps, sim_no) ==
    /\ client \in {"driver", "faulty"}
    /\ pc = "idle"
    /\ Usable(tree, root)
    /\ tree[Top(tree, root)].num_visits + sim_no
           <= (IF client = "driver" THEN MaxVisits ELSE MaxCallVisits)
    /\ pc' = "best_action"
    /\ ba' = [steps |-> steps, sim_no |-> sim_no, i |-> 0, sim_count |-> 0,
              elapsed |-> 0]
    /\ ret' = Ret("best_action", "pending", 0, 223)
    /\ UNCHANGED <<tree, root, client, ro, rt>>

\* control leaves best_action through lines 245-258
FinishBestAction ==
    LET f == finish_best_action(tree, root, ba.sim_count)
    IN /\ ret' = Ret("best_action", f.kind, f.val, f.line)
       /\ pc' = "idle"
       /\ ba' = NoBa
       /\ UNCHANGED <<tree, root, client, ro, rt>>

\* one turn of the for loop of best_action, lines 229-241; `elapsed` is
\* what timer() - start_time reads
BestActionIter ==
    /\ pc = "best_action"
    /\ ba.i < ba.sim_no
    /\ \E elapsed \in ba.elapsed..MaxClock :
           IF elapsed > tree[root].estimated_time
           THEN FinishBestAction
           ELSE \E a \in Picks(tree, root) :
                    /\ CanStep(tree, root, a)
                    /\ LET r == tree_policy(tree, root, a)
                           v == r.node
                       IN /\ tree' = r.tree
                          /\ UNCHANGED <<root, client, rt>>
                          /\ IF v = NoNode
                             THEN /\ ret' = Ret("best_action", "none", 0, 236)
                                  /\ pc' = "idle"
                                  /\ ba' = NoBa
                                  /\ ro' = ro
                             ELSE IF is_immediate_win(r.tree, root, v)
                             THEN /\ ret' = Ret("best_action", "action",
                                                r.tree[v].parent_action, 239)
                                  /\ pc' = "idle"
                                  /\ ba' = NoBa
                                  /\ ro' = ro
                             ELSE /\ ret' = ret
                                  /\ pc' = "new_rollout"
                                  /\ ba' = [ba EXCEPT !.elapsed = elapsed]
                                  /\ ro' = [self |-> v,
                                            max_steps |-> adjust_max_steps(ba.steps),
                                            push_step |-> 0,
                                            current_node |-> v,
                                            caller |-> "best_action"]

\* the for loop of best_action has run sim_no times
BestActionEnd ==
    /\ pc = "best_action"
    /\ ba.i >= ba.sim_no
    /\ FinishBestAction

\* ------------------------------------------------------- rollout_turns
RECURSIVE SumSeq(_)
SumSeq(q) == IF q = << >> THEN 0 ELSE Head(q) + SumSeq(Tail(q))

\* n.rollout_turns(times) is entered
RolloutTurnsCall(n, times) ==
    /\ client = "rollouts"
    /\ pc = "idle"
    /\ Usable(tree, n)
    /\ pc' = "rollout_turns"
    /\ rt' = [self |-> n, times |-> times, tried_times |-> 0,
              this_push_step |-> 0, push_steps |-> << >>, current_node |-> n]
    /\ ret' = Ret("rollout_turns", "pending", 0, 111)
    /\ UNCHANGED <<tree, root, client, ba, ro>>

\* one turn of the inner while loop of rollout_turns, lines 121-129
RolloutTurnsStep ==
    /\ pc = "rollout_turns"
    /\ rt.tried_times # rt.times
    /\ ~is_terminal_node(tree, rt.current_node)
    /\ \E a \in Picks(tree, rt.current_node) :
           /\ CanStep(tree, rt.current_node, a)
           /\ LET r == tree_policy(tree, rt.current_node, a)
              IN IF r.node = NoNode
                 THEN /\ tree' = r.tree
                      /\ ret' = Ret("rollout_turns", "int",
                                    tree[rt.self].board.turn_count, 128)
                      /\ pc' = "idle"
                      /\ rt' = NoRt
                 ELSE /\ CanVisit(r.tree, r.node)
                      /\ tree' = backpropagate(r.tree, r.node,
                                               winner_color(r.tree[r.node].board))
                      /\ rt' = [rt EXCEPT !.current_node = r.node,
                                          !.this_push_step = @ + 1]
                      /\ UNCHANGED <<pc, ret>>
    /\ UNCHANGED <<root, client, ba, ro>>

\* the inner loop is over: lines 130-131, and line 120 of the next turn
RolloutTurnsNext ==
    /\ pc = "rollout_turns"
    /\ rt.tried_times # rt.times
    /\ is_terminal_node(tree, rt.current_node)
    /\ rt' = [rt EXCEPT !.tried_times = @ + 1,
                        !.push_steps = Append(@, rt.this_push_step),
                        !.this_push_step =
                            IF rt.tried_times + 1 # rt.times THEN 0 ELSE @]
    /\ UNCHANGED <<tree, root, client, pc, ba, ro, ret>>

\* the outer loop is over, lines 132-137
RolloutTurnsReturn ==
    /\ pc = "rollout_turns"
    /\ rt.tried_times = rt.times
    /\ ret' = IF rt.tried_times = 0
              THEN Ret("rollout_turns", "ZeroDivisionError", 0, 135)
              ELSE Ret("rollout_turns", "int",
                       RoundHalfEven(SumSeq(rt.push_steps), 2 * rt.tried_times),
                       137)
    /\ pc' = "idle"
    /\ rt' = NoRt
    /\ UNCHANGED <<tree, root, client, ba, ro>>

\* -------------------------------------------------- failing move update
\* n.expand(action) while update_actions works (fails = FALSE) or returns
\* no move at all (fails = TRUE)
ConstructCall(n, action, fails) ==
    /\ client = "faulty"
    /\ pc = "idle"
    /\ Usable(tree, n)
    /\ CanConstruct(tree)
    /\ tree' = IF fails THEN expand_given(tree, n, action, {}).tree
                        ELSE expand(tree, n, action).tree
    /\ UNCHANGED <<root, client, pc, ba, ro, rt, ret>>

\* ---------------------------------------------------------- best_child
\* root.best_child(c_param=0.0), the call of line 251
BestChildCall ==
    /\ client = "selection"
    /\ pc = "idle"
    /\ Usable(tree, root)
    /\ LET bc == best_child(tree, root, 0)
       IN ret' = IF bc = NoNode THEN Ret("best_child", "exit", 0, 203)
                 ELSE Ret("best_child", "node", bc, 204)
    /\ UNCHANGED <<tree, root, client, pc, ba, ro, rt>>

\* --------------------------------------------------------- tree reuse
\* the driver plays `move`: the child for it becomes the root and the
\* other branches are released by chop_nodes_except
AdvanceRoot(move) ==
    /\ client \in {"driver", "faulty"}
    /\ pc = "idle"
    /\ Usable(tree, root)
    /\ HasKey(tree[root].action_to_children, move) \/ CanConstruct(tree)
    /\ LET r == get_child(tree, root, move)
       IN /\ tree' = chop_nodes_except(r.tree, root, r.node)
          /\ root' = r.node
          /\ ret' = Ret("chop_nodes_except", "none", r.node, 306)
    /\ UNCHANGED <<client, pc, ba, ro, rt>>

\* direct calls of the node's methods, in any order, on any node
NextCalls ==
    \/ \E n \in Nodes : \E action \in {NoAction} \cup tree[n].my_actions :
           ExpandCall(n, action)
    \/ \E n \in Nodes : \E action \in tree[n].my_actions : GetChildCall(n, action)
    \/ \E n \in Nodes : TreePolicyCall(n)
    \/ \E n \in Nodes, result \in Results : BackpropagateCall(n, result)

\* rollouts of both kinds, from any node
NextRollouts ==
    \/ \E n \in Nodes, max_steps \in 0..MaxSteps : NewRolloutCall(n, max_steps)
    \/ NewRolloutStep
    \/ NewRolloutReturn
    \/ \E n \in Nodes, times \in 0..MaxTimes : RolloutTurnsCall(n, times)
    \/ RolloutTurnsStep
    \/ RolloutTurnsNext
    \/ RolloutTurnsReturn

\* a match: searches from the root, and the root advanced move by move
NextDriver ==
    \/ \E steps \in 0..MaxSteps, sim_no \in 0..MaxSims : BestActionCall(steps, sim_no)
    \/ BestActionIter
    \/ BestActionEnd
    \/ NewRolloutStep
    \/ NewRolloutReturn
    \/ \E move \in tree[root].my_actions : AdvanceRoot(move)

Next ==
    \/ \E n \in Nodes : \E action \in {NoAction} \cup tree[n].my_actions :
           ExpandCall(n, action)
    \/ \E n \in Nodes : \E action \in tree[n].my_actions : GetChildCall(n, action)
    \/ \E n \in Nodes : TreePolicyCall(n)
    \/ \E n \in Nodes, result \in Results : BackpropagateCall(n, result)
    \/ \E n \in Nodes, max_steps \in 0..MaxSteps : NewRolloutCall(n, max_steps)
    \/ NewRolloutStep
    \/ NewRolloutReturn
    \/ \E steps \in 0..MaxSteps, sim_no \in 0..MaxSims : BestActionCall(steps, sim_no)
    \/ BestActionIter
    \/ BestActionEnd
    \/ \E n \in Nodes, times \in 0..MaxTimes : RolloutTurnsCall(n, times)
    \/ RolloutTurnsStep
    \/ RolloutTurnsNext
    \/ RolloutTurnsReturn
    \/ \E move \in tree[root].my_actions : AdvanceRoot(move)
    \/ BestChildCall
    \/ \E n \in Nodes : \E action \in tree[n].my_actions, fails \in BOOLEAN :
           ConstructCall(n, action, fails)

\* every client
Spec == Init /\ [][Next]_vars
SpecCalls == InitCalls /\ [][NextCalls]_vars
SpecRollouts == InitRollouts /\ [][NextRollouts]_vars
SpecDriver == InitDriver /\ [][NextDriver]_vars
\* every client that starts from a fresh root
InitFresh == client \in {"driver", "rollouts", "calls"} /\ InitTree /\ InitLocals
NextFresh == NextCalls \/ NextRollouts \/ NextDriver
SpecFresh == InitFresh /\ [][NextFresh]_vars
\* searches in a tree some of whose move updates failed
NextFaulty ==
    \/ \E n \in Nodes : \E action \in tree[n].my_actions, fails \in BOOLEAN :
           ConstructCall(n, action, fails)
    \/ \E steps \in 0..MaxSteps, sim_no \in 0..MaxSims : BestActionCall(steps, sim_no)
    \/ BestActionIter
    \/ BestActionEnd
    \/ NewRolloutStep
    \/ NewRolloutReturn
    \/ \E move \in tree[root].my_actions : AdvanceRoot(move)
SpecFaulty == InitFaulty /\ [][NextFaulty]_vars
\* final selections among the children of a searched root
NextSelection == BestChildCall
SpecSelection == InitSelection /\ [][NextSelection]_vars


\* ---------------------------------------------------------------- claims
\* C1: in every reachable state every node of the tree has
\* 0 <= win_count (results[1]) <= visit_count (num_visits).
C1_WinsWithinVisits ==
    \A n \in Nodes : 0 <= tree[n].results /\ tree[n].results <= tree[n].num_visits

\* C1 witness: a node that was backpropagated through at least twice and
\* won some, not all, of the results
C1_Witness ==
    \E n \in Nodes : 0 < tree[n].results /\ tree[n].results < tree[n].num_visits

\* C2: one completed backpropagate call started at n raises num_visits by
\* exactly 1 on every node from n up to the root, n and the root included,
\* ends at the node without parent, and counts no visit anywhere else.
C2_BackpropagateVisits ==
    [][\A n \in Nodes, result \in Results :
          BackpropagateCall(n, result) =>
              /\ \A m \in Chain(tree, n) :
                     tree'[m].num_visits = tree[m].num_visits + 1
              /\ Top(tree, n) \in Chain(tree, n)
              /\ tree[Top(tree, n)].parent = NoNode
              /\ \A m \in Nodes \ Chain(tree, n) :
                     tree'[m].num_visits = tree[m].num_visits]_vars

\* C2 witness: a pass has run from a node two levels below the root
C2_Witness ==
    \E n \in Nodes :
        /\ tree[n].parent # NoNode
        /\ tree[tree[n].parent].parent # NoNode
        /\ tree[n].num_visits > 0
        /\ client = "calls"


\* the nodes n refers to: its parent and the values of its children map
Refs(t, n) ==
    (IF t[n].parent # NoNode THEN {t[n].parent} ELSE {})
    \cup Values(t[n].action_to_children)

RECURSIVE ReachFrom(_, _)
\* the nodes reached from the set S by following references
ReachFrom(t, S) ==
    LET more == S \cup UNION {Refs(t, n) : n \in S}
    IN IF more = S THEN S ELSE ReachFrom(t, more)

\* C3: after chop_nodes_except(node) on the old root, with `node` the new
\* root, no node of a discarded sibling subtree is reached from the new
\* root by following parent references and children maps.
C3_PrunedUnreachable ==
    ret.op = "chop_nodes_except" =>
        \A n \in ReachFrom(tree, {root}) : ~tree[n].deleted


\* best_action has returned to the driver, or has raised
BestActionOver == pc = "idle" /\ ret.op = "best_action"

\* C4: best_action returns a legal move of the root position whenever the
\* root has a legal move and the time budget is nonzero, for every step
\* budget and every simulation ceiling.
C4_ReturnsLegalMove ==
    (/\ BestActionOver
     /\ tree[root].my_actions # {}
     /\ tree[root].estimated_time > 0)
        => ret.kind = "action" /\ ret.val \in tree[root].my_actions

\* C5: when the loop of best_action stops because the time budget is
\* exhausted, at any iteration, the first included, best_action gives an
\* answer and raises nothing.  A step from inside the loop to lines 245-258
\* is the break of line 231.
C5_BudgetExceededAnswers ==
    [][(/\ pc = "best_action"
        /\ ba.i < ba.sim_no
        /\ pc' = "idle"
        /\ ret'.line \in {248, 203, 254})
           => ret'.kind \in {"action", "none"}]_vars

\* C6: when the final best_child(c_param=0.0) of best_action finds no child
\* at the root, best_action reports "no move" to its caller and the process
\* goes on.
C6_NoChildIsNoMove ==
    (BestActionOver /\ ret.line \notin {236, 239, 248}
        /\ tree[root].action_to_children = << >>)
        => ret.kind = "none"


\* C7: in best_action, when the node the tree policy selects from the root
\* is terminal and won by the root's color, the move leading to it is
\* returned at once, without rollout and without backpropagation; from the
\* root with 4 legal moves that each win at once, the first simulation
\* returns one of the 4 moves.
C7_ImmediateWinReturns ==
    [][pc = "best_action" =>
        /\ pc' = "new_rollout" =>
               ~(/\ is_terminal_node(tree', ro'.self)
                 /\ winner_color(tree'[ro'.self].board) = tree'[root].color)
        /\ ret'.line = 239 =>
               /\ pc' = "idle"
               /\ ret'.kind = "action"
               /\ \E v \in {root} \cup Values(tree'[root].action_to_children) :
                      /\ is_terminal_node(tree', v)
                      /\ winner_color(tree'[v].board) = tree'[root].color
                      /\ ret'.val = tree'[v].parent_action
               /\ \A n \in Nodes :
                      /\ tree'[n].num_visits = tree[n].num_visits
                      /\ tree'[n].results = tree[n].results
        /\ (tree[root].board = FourWins /\ pc' # "best_action"
                /\ ret'.line # 248) =>
               /\ ret'.line = 239
               /\ ba.sim_count = 0
               /\ Cardinality(tree[root].my_actions) = 4
               /\ ret'.val \in tree[root].my_actions]_vars

C7_Witness ==
    /\ BestActionOver
    /\ ret.line = 239
    /\ tree[root].board = FourWins
    /\ Cardinality(tree[root].my_actions) = 4
    /\ ret.val \in tree[root].my_actions

\* the win ratio of the i-th child of n is at most / below that of the j-th
RatioLeq(t, n, i, j) ==
    LET a == t[t[n].action_to_children[i][2]]
        b == t[t[n].action_to_children[j][2]]
    IN a.results * b.num_visits <= b.results * a.num_visits
RatioLess(t, n, i, j) ==
    LET a == t[t[n].action_to_children[i][2]]
        b == t[t[n].action_to_children[j][2]]
    IN a.results * b.num_visits < b.results * a.num_visits

\* the children of n are A (visits 10, wins 7) and B (visits 5, wins 4)
ChildrenAB(t, n) ==
    /\ Len(t[n].action_to_children) = 2
    /\ LET a == t[t[n].action_to_children[1][2]]
           b == t[t[n].action_to_children[2][2]]
       IN /\ a.num_visits = 10 /\ a.results = 7
          /\ b.num_visits = 5 /\ b.results = 4

\* C8: best_child with c = 0, on a visited node whose children are all
\* visited, returns the child of maximum win ratio, the first such child
\* of the children map; among A (10 visits, 7 wins) and B (5 visits,
\* 4 wins) it returns B.
C8_BestChildExploits ==
    (/\ ret.op = "best_child"
     /\ tree[root].num_visits > 0
     /\ tree[root].action_to_children # << >>
     /\ \A c \in Values(tree[root].action_to_children) : tree[c].num_visits > 0)
        => /\ ret.kind = "node"
           /\ \E j \in 1..Len(tree[root].action_to_children) :
                  /\ tree[root].action_to_children[j][2] = ret.val
                  /\ \A i \in 1..Len(tree[root].action_to_children) :
                         RatioLeq(tree, root, i, j)
                  /\ \A i \in 1..(j - 1) : RatioLess(tree, root, i, j)
           /\ ChildrenAB(tree, root) =>
                  ret.val = tree[root].action_to_children[2][2]

C8_Witness ==
    /\ ret.op = "best_child"
    /\ ChildrenAB(tree, root)
    /\ ret.val = tree[root].action_to_children[2][2]

\* the last rollout of the running best_action ran out of steps
RolloutCutShort ==
    pc = "best_action" /\ ret.op = "new_rollout" /\ ret.line = 165

\* C9 as stated: a rollout of best_action that runs out of steps marks the
\* reached node with the search root's color exactly when greedy_judge of
\* the reached node, for the search root's color, is strictly greater than
\* greedy_judge of the search root, and with the opponent otherwise.
C9_JudgedFromSearchRoot ==
    RolloutCutShort =>
        tree[ret.val].winning_color =
            IF greedy_judge(tree, ret.val, tree[root].color)
                   > greedy_judge(tree, root, tree[root].color)
            THEN tree[root].color
            ELSE opponent(tree[root].color)

\* C9 amended: a rollout of best_action that runs out of steps marks the
\* reached node with the color of the node the rollout started from exactly
\* when greedy_judge of the reached node, for that color, is strictly
\* greater than greedy_judge of the start node, and with the opponent of
\* that color otherwise, ties included.
C9_JudgedFromStartNode ==
    [][(/\ pc = "new_rollout"
        /\ ro.caller = "best_action"
        /\ pc' = "best_action"
        /\ ret'.line = 165)
           => tree'[ro.current_node].winning_color =
                  IF greedy_judge(tree, ro.current_node, tree[ro.self].color)
                         > greedy_judge(tree, ro.self, tree[ro.self].color)
                  THEN tree[ro.self].color
                  ELSE opponent(tree[ro.self].color)]_vars

C9_Witness ==
    /\ RolloutCutShort
    /\ ret.val # root
    /\ tree[ret.val].parent # root
    /\ tree[ret.val].winning_color = tree[root].color

\* C10: new_rollout(max_steps) raises an odd max_steps by one before the
\* loop, and a rollout that the end of the game does not stop takes the
\* smallest even number of steps that is at least max_steps.
C10_EvenStepBudget ==
    [][/\ \A n \in Nodes, max_steps \in 0..MaxSteps :
              NewRolloutCall(n, max_steps) =>
                  ro'.max_steps = max_steps + (max_steps % 2)
       /\ (pc = "new_rollout" /\ pc' # "new_rollout" /\ ret'.line = 165) =>
              /\ ro.push_step = ro.max_steps
              /\ ro.push_step % 2 = 0]_vars


\* how many of: untried moves left, children present, game over
StatesOf(t, n) ==
    (IF t[n].untried_actions # {} THEN 1 ELSE 0)
    + (IF t[n].action_to_children # << >> THEN 1 ELSE 0)
    + (IF is_terminal_node(t, n) THEN 1 ELSE 0)

\* C11 as stated: for every node exactly one holds of: its untried moves
\* are not empty, its children map is not empty, the node is terminal.
C11_ExactlyOne ==
    \A n \in Nodes : ~tree[n].deleted => StatesOf(tree, n) = 1

\* C11 amended: for every node at least one of the three holds; the first
\* two hold together while the node is partly expanded.
C11_AtLeastOne ==
    \A n \in Nodes : ~tree[n].deleted => StatesOf(tree, n) >= 1

C11_Witness ==
    \E n \in Nodes :
        /\ ~tree[n].deleted
        /\ ~is_terminal_node(tree, n)
        /\ tree[n].untried_actions # {}
        /\ tree[n].action_to_children # << >>


\* the nodes that were constructed as the child of n for move a
ConstructedFor(t, n, a) ==
    {c \in 1..Len(t) : t[c].parent = n /\ t[c].parent_action = a}

\* C12: expand() without a move on a node with no untried move returns an
\* existing child and constructs no node; and no call of expand, tree_policy
\* or get_child constructs a second child for a move that has one.
C12_NoDuplicateChild ==
    [][/\ \A n \in Nodes :
              (ExpandCall(n, NoAction) /\ tree[n].untried_actions = {}) =>
                  /\ Len(tree') = Len(tree)
                  /\ tree[n].action_to_children # << >>
       /\ \A n \in Nodes : \A a \in tree[n].my_actions :
              HasKey(tree[n].action_to_children, a) =>
                  ConstructedFor(tree', n, a) = ConstructedFor(tree, n, a)]_vars


\* C13: one backpropagate call with result R adds 1 to the wins of the
\* nodes of the path to the root whose own color is R, adds nothing to the
\* wins of the other path nodes (of all of them when R is no color), and
\* changes neither count of a node off the path.
C13_WinsOfOwnColor ==
    [][\A n \in Nodes, result \in Results :
           BackpropagateCall(n, result) =>
               /\ \A m \in Chain(tree, n) :
                      tree'[m].results =
                          tree[m].results
                              + (IF tree[m].color = result THEN 1 ELSE 0)
               /\ \A m \in Chain(tree, n) :
                      result = NONE => tree'[m].results = tree[m].results
               /\ \A m \in Nodes \ Chain(tree, n) :
                      /\ tree'[m].results = tree[m].results
                      /\ tree'[m].num_visits = tree[m].num_visits]_vars

C13_Witness ==
    /\ client = "calls"
    /\ \E n \in Nodes :
           /\ tree[n].parent # NoNode
           /\ tree[n].results > 0
           /\ tree[tree[n].parent].results < tree[n].results
           /\ tree[tree[n].parent].num_visits >= tree[n].num_visits

\* the ancestors of n
Ancestors(t, n) == Chain(t, n) \ {n}

\* C14: after a backpropagate call started at n, the danger flag of every
\* ancestor of n is the flag n had when the call started, whatever the
\* ancestor held: an ancestor set to true by an earlier pass is reset to
\* false by a pass started at a node whose flag is false.
C14_DangerOverwritten ==
    [][/\ \A n \in Nodes, result \in Results :
              BackpropagateCall(n, result) =>
                  \A m \in Ancestors(tree, n) : tree'[m].danger = tree[n].danger
       /\ (pc = "new_rollout" /\ pc' = "best_action" /\ ret'.val # NoNode) =>
              LET started ==
                      judge_rollout(tree, ro.self, ro.current_node)
              IN \A m \in Ancestors(tree, ret'.val) :
                     tree'[m].danger = started[ret'.val].danger]_vars

\* a pass through child c set the root's flag, a later pass reset it
C14_Witness ==
    /\ pc = "best_action"
    /\ ret.op = "new_rollout"
    /\ ~tree[root].danger
    /\ \E c \in Values(tree[root].action_to_children) :
           tree[c].danger /\ tree[c].num_visits > 0




\* C15: when a node is constructed on the incremental path and the update
\* yields no move for a board that is not terminal, construction falls back
\* to full generation: the node's moves are those bit_find_actions gives.
C15_FallsBackToFullGeneration ==
    [][\A n \in Nodes : \A action \in tree[n].my_actions :
           (/\ ConstructCall(n, action, TRUE)
            /\ TakesIncrementalPath(tree, n)
            /\ ~is_terminal_node(tree', Len(tree'))) =>
               tree'[Len(tree')].my_actions =
                   bit_find_actions(tree'[Len(tree')].board,
                                    tree'[Len(tree')].color)]_vars


\* the nodes whose construction called update_actions, lines 41-48
Updated(t) ==
    {n \in 1..Len(t) : ~t[n].deleted /\ TakesIncrementalPath(t, t[n].parent)}

\* the old board the construction of n passed to update_actions
OldBoard(t, n) == t[t[t[n].parent].parent].board

\* C16 as stated: every call of the incremental update made by node
\* construction passes an old and a new board one ply apart.
C16_OnePlyApart ==
    \A n \in Updated(tree) :
        tree[n].board.turn_count = OldBoard(tree, n).turn_count + 1

\* C16 amended: every such call passes the board of the node's grandparent
\* and the node's board, which are two plies apart, one by each color, with
\* the same color to move.
C16_TwoPliesApart ==
    \A n \in Updated(tree) :
        /\ tree[n].board.turn_count = OldBoard(tree, n).turn_count + 2
        /\ tree[n].board.turn_color = OldBoard(tree, n).turn_color
        /\ \A c \in PlayerColor :
               /\ Tokens(OldBoard(tree, n), c) \subseteq Tokens(tree[n].board, c)
               /\ Cardinality(Tokens(tree[n].board, c)
                                  \ Tokens(OldBoard(tree, n), c)) = 1

C16_Witness ==
    /\ client = "calls"
    /\ \E n \in Updated(tree) : tree[n].my_actions # {}


\* the tree policy has nothing to select at n: the game goes on, no move
\* is left to try and there is no child
SelectionInconsistent(t, n) ==
    /\ ~is_terminal_node(t, n)
    /\ is_fully_expanded(t, n)
    /\ t[n].action_to_children = << >>

\* C17: when the tree policy meets a node that is not terminal, is fully
\* expanded and has no child, at the root selection of best_action or at a
\* step of its rollout, the running best_action is aborted: it returns
\* without a move and simulates no more.
C17_InconsistencyAborts ==
    [][/\ (/\ pc = "best_action"
           /\ ba.i < ba.sim_no
           /\ SelectionInconsistent(tree, root)
           /\ ret'.line \notin {248, 203, 254}) =>
              pc' = "idle" /\ ret'.op = "best_action" /\ ret'.kind = "none"
       /\ (/\ pc = "new_rollout"
           /\ ro.caller = "best_action"
           /\ ro.push_step < ro.max_steps
           /\ SelectionInconsistent(tree, ro.current_node)) =>
              pc' = "idle" /\ ret'.op = "best_action" /\ ret'.kind = "none"]_vars


\* C18: rollout_turns(times), times >= 1, plays `times` playouts from the
\* starting node, each to a terminal node, and returns the average number
\* of plies of a playout, halved and rounded: every repetition adds the
\* length of a whole playout from the starting node.
C18_EveryPlayoutCounts ==
    [][/\ (pc = "rollout_turns"
               /\ Len(rt'.push_steps) = Len(rt.push_steps) + 1) =>
              /\ is_terminal_node(tree, rt.current_node)
              /\ rt'.push_steps[Len(rt'.push_steps)] =
                     tree[rt.current_node].board.turn_count
                         - tree[rt.self].board.turn_count
       /\ (pc = "rollout_turns" /\ pc' = "idle" /\ ret'.line = 137) =>
              /\ Len(rt.push_steps) = rt.times
              /\ ret'.val = RoundHalfEven(SumSeq(rt.push_steps), 2 * rt.times)]_vars


RECURSIVE ChildVisits(_, _, _)
\* the visits of the children in the map of n, from the i-th on
ChildVisits(t, n, i) ==
    IF i > Len(t[n].action_to_children) THEN 0
    ELSE t[t[n].action_to_children[i][2]].num_visits + ChildVisits(t, n, i + 1)

\* C19: whatever calls were made, a node has at least as many visits as
\* the children in its map have together; so best_child never finds a
\* visited child under a node without visit.
C19_VisitsCoverChildren ==
    \A n \in Nodes :
        /\ tree[n].num_visits >= ChildVisits(tree, n, 1)
        /\ \A c \in Values(tree[n].action_to_children) :
               tree[c].num_visits > 0 => tree[n].num_visits > 0

C19_Witness ==
    \E n \in Nodes :
        /\ Len(tree[n].action_to_children) >= 2
        /\ \A c \in Values(tree[n].action_to_children) : tree[c].num_visits > 0
        /\ tree[n].num_visits > ChildVisits(tree, n, 1)

====
